---- MODULE Spec2Model ----
(***************************************************************************)
(* Live speech translation pipeline of janisoteps/audio-translation.       *)
(*                                                                         *)
(* Two views share one pipeline:                                           *)
(*   "local"  : DefaultTranslateView, fed by the browser's continuous      *)
(*              SpeechRecognition (interim and final results);             *)
(*   "remote" : IphoneTranslateView, fed by the ElevenLabs Scribe hook     *)
(*              (partial and committed transcripts), started with a token. *)
(*                                                                         *)
(* A text is a sequence of characters; a character is a natural number,    *)
(* 0 being the blank.  The k-th word the speaker says is the one-character *)
(* word <<k>>, so all spoken words are distinct.  The translation provider *)
(* maps the character c to -c.                                             *)
(*                                                                         *)
(* One action is one event-loop task: the handler, React's re-render and   *)
(* the effects whose dependencies the handler changed, run to completion.  *)
(***************************************************************************)
EXTENDS Integers, Sequences, FiniteSets, TLC

VARIABLES
  variant,               \* which view App renders
  selectedLanguage,      \* useState selectedLanguage
  isListening,           \* useState isListening (local view)
  isConnected,           \* scribe.isConnected (remote view)
  wordArray,             \* useState wordArray (local view)
  phraseArray,           \* useState phraseArray: the Phrase Queue
  translatedArray,       \* useState translatedArray: the Translated Queue
  currentTranslation,    \* useState currentTranslation: the current display
  recentTranslations,    \* useState recentTranslations
  isTranslatingRef,      \* the translation lock
  isSpeakingRef,         \* the speaking lock
  lastInterimRef,        \* retained partial (local view)
  processedWordCountRef, \* words of the current partial already made phrases
  allProcessedTextRef,   \* the ProcessedTextLedger (local view)
  recognitionRef,        \* TRUE iff recognitionRef.current is a recognizer
  orphans,               \* recognizers no longer referenced: [stopping, running]
  startAttempts,         \* remote start() calls awaiting getToken or connect
  translateCalls,        \* fetch() calls to the translation provider, in issue order
  utterances,            \* utterances handed to speechSynthesis.speak, in issue order
  uttBase,               \* words the speaker said in utterances already final
  uttLen,                \* words of the current utterance the source has reported
  session,               \* number of start() calls so far
  languageChanges,       \* number of language selections so far
  emitted,               \* phrases appended to the Phrase Queue since the last start()
  failed,                \* phrases whose translation call failed since the last start()
  submitted,             \* phrases handed to the translation provider so far
  spokenLog,             \* texts handed to the playback provider since the last start()
  queuedAtStop,          \* lengths of the two queues at the last stop() of this session
  lastRevision,          \* the last revision the source delivered since the last start()
  password,              \* useState password (remote view)
  token,                 \* useElevenLabs: useState token
  isLoading,             \* useElevenLabs: useState isLoading
  error,                 \* useElevenLabs: TRUE iff useState error holds an Error
  isAuthenticating,      \* useState isAuthenticating
  authError,             \* TRUE iff useState authError holds a message
  localStorage,          \* window.localStorage, by key
  tokenRequests,         \* getToken calls of the effect and of the password form, unsettled
  tokensIssued,          \* number of tokens the credential provider has issued
  connectLog,            \* the tokens passed to scribe.connect, in call order
  capturedLanguage,      \* the language selected when the source last delivered a transcript
  startChanges,          \* for each pending start attempt, the pipeline before and after the press
  autoFetches,           \* token fetches the effect issued since the user last acted on the credentials
  completedLog,          \* translations of the calls that succeeded so far, in completion order
  windowClearedAt,       \* length of completedLog when recentTranslations was last cleared
  alerts                 \* what each alert() call so far reported: "password", "token" or "connect"

vars == <<variant, selectedLanguage, isListening, isConnected, wordArray,
          phraseArray, translatedArray, currentTranslation, recentTranslations,
          isTranslatingRef, isSpeakingRef, lastInterimRef, processedWordCountRef,
          allProcessedTextRef, recognitionRef, orphans, startAttempts,
          translateCalls, utterances, uttBase, uttLen, session, languageChanges,
          emitted, failed, submitted, spokenLog, queuedAtStop, lastRevision,
          password, token, isLoading, error, isAuthenticating, authError,
          localStorage, tokenRequests, tokensIssued, connectLog, alerts,
          completedLog, windowClearedAt, capturedLanguage, startChanges,
          autoFetches>>

----------------------------------------------------------------------------
(* Bounds of the model and constants of the program *)

WORDS_PER_PHRASE == 10

RECENT_WINDOW == 3

MaxWords == 20

MaxStarts == 2

MaxLanguageChanges == 1

MaxSegWords == 12
\* the most phrases worth of words one revision adds when bursts are under study
MaxBurst == 2
\* the most tokens the credential provider issues
MaxTokens == 4
\* the most words the speaker says when the window of recent translations is under study
MaxCapture == 40
\* the most token fetches the effect issues in a row
MaxAutoFetches == 3

Variants == {"local", "remote"}

\* Two of the languages the selector offers.
LANGUAGES == {"lv", "en"}

----------------------------------------------------------------------------
(* Texts: String.prototype.trim / split / join / startsWith / substring,   *)
(* and the array methods the pipeline uses                                 *)

SP == 0

EmptyText == <<>>

RECURSIVE TrimStart(_)
TrimStart(s) ==
  IF s # <<>> /\ Head(s) = SP THEN TrimStart(Tail(s)) ELSE s

RECURSIVE TrimEnd(_)
TrimEnd(s) ==
  IF s # <<>> /\ s[Len(s)] = SP THEN TrimEnd(SubSeq(s, 1, Len(s) - 1)) ELSE s

Trim(s) == TrimEnd(TrimStart(s))

\* s.split(/\s+/).filter(w => w.length > 0)
RECURSIVE SplitFrom(_, _, _)
SplitFrom(s, cur, acc) ==
  IF s = <<>>
  THEN IF cur = <<>> THEN acc ELSE Append(acc, cur)
  ELSE IF Head(s) = SP
       THEN SplitFrom(Tail(s), <<>>, IF cur = <<>> THEN acc ELSE Append(acc, cur))
       ELSE SplitFrom(Tail(s), Append(cur, Head(s)), acc)

SplitWords(s) == SplitFrom(s, <<>>, <<>>)

\* ws.join(' ')
RECURSIVE Join(_)
Join(ws) ==
  IF ws = <<>> THEN <<>>
  ELSE IF Len(ws) = 1 THEN ws[1]
  ELSE ws[1] \o <<SP>> \o Join(Tail(ws))

\* segments.join('')
RECURSIVE Concat(_)
Concat(ss) == IF ss = <<>> THEN <<>> ELSE Head(ss) \o Concat(Tail(ss))

StartsWith(s, p) == Len(p) <= Len(s) /\ SubSeq(s, 1, Len(p)) = p

Substring(s, n) == SubSeq(s, n + 1, Len(s))

\* arr.slice(from, to) with 0-based from (inclusive) and to (exclusive)
Slice(arr, from, to) ==
  SubSeq(arr, from + 1, IF to < Len(arr) THEN to ELSE Len(arr))

\* arr.slice(1)
Slice1(arr) == IF arr = <<>> THEN <<>> ELSE Tail(arr)

\* arr.slice(-n)
LastN(arr, n) ==
  IF Len(arr) <= n THEN arr ELSE SubSeq(arr, Len(arr) - n + 1, Len(arr))

RemoveAt(seq, i) == SubSeq(seq, 1, i - 1) \o SubSeq(seq, i + 1, Len(seq))

----------------------------------------------------------------------------
(* The collaborators: the speaker, the transcript source, the translation  *)
(* provider                                                                *)

\* The transcript the source reports for an utterance of k words that
\* follows `base` words already said: the words base+1 .. base+k.
Utterance(base, k) == Join([i \in 1..k |-> <<base + i>>])

\* The provider's translation of a text, character by character.
Translated(p) == [i \in 1..Len(p) |-> 0 - p[i]]

\* data[0] of the provider's JSON: the translation in n segments (n is 1 or 2),
\* each segment being the text at segment[0].
ResponseSegments(p, n) ==
  LET t == Translated(p)
      h == Len(t) \div 2
  IN  IF n = 1 \/ Len(t) < 2 THEN <<t>>
      ELSE <<SubSeq(t, 1, h), SubSeq(t, h + 1, Len(t))>>

\* What a translation call can end with.
\* "failed" stands for the three ways into the catch block: fetch rejects, the
\* response is not ok, the payload cannot be read.
FailureOutcomes == {"failed"}

Outcomes == FailureOutcomes \cup {"one", "two"}

SegmentCount(outcome) == IF outcome = "two" THEN 2 ELSE 1

\* const translation = data[0][0][0]                         (local view)
\* const translation = data[0].map(segment => segment[0]).join('')  (remote view)
ExtractTranslation(v, segments) ==
  IF v = "local" THEN segments[1] ELSE Concat(segments)

----------------------------------------------------------------------------
(* The effects of the pipeline, run after a handler's state updates        *)

\* PROCESS 2: while the word array holds WORDS_PER_PHRASE words, move the
\* first WORDS_PER_PHRASE of them to the phrase array as one phrase.
RECURSIVE MoveWords(_, _)
MoveWords(wa, pa) ==
  IF Len(wa) >= WORDS_PER_PHRASE
  THEN MoveWords(SubSeq(wa, WORDS_PER_PHRASE + 1, Len(wa)),
                 Append(pa, Join(Slice(wa, 0, WORDS_PER_PHRASE))))
  ELSE [wordArray |-> wa, phraseArray |-> pa]

\* The translation effect starts a call: the queue is not empty and the lock is free.
TranslateGuard(pa, lock) == Len(pa) # 0 /\ ~lock

\* A playback effect that rests while the session is Idle.
SpeakGuardWhileActive(ta, lock) ==
  Len(ta) # 0 /\ ~lock /\ (IF variant = "local" THEN isListening ELSE isConnected)

\* The playback effect starts an utterance: the queue is not empty and the lock is free.
SpeakGuard(ta, lock) == Len(ta) # 0 /\ ~lock

\* What a handler leaves behind when it changes none of the pipeline's state.
Handled ==
  [pa |-> phraseArray, ta |-> translatedArray, cur |-> currentTranslation,
   lockT |-> isTranslatingRef, lockS |-> isSpeakingRef,
   calls |-> translateCalls, utts |-> utterances, log |-> spokenLog,
   lang |-> selectedLanguage, sess |-> session,
   trigT |-> FALSE, trigS |-> FALSE]

\* The state after the re-render that follows a handler, h being what the
\* handler left (h.lang and h.sess are the values of the new render): the
\* translation effect runs if one of its dependencies changed (h.trigT) and
\* the playback effect if its dependency changed (h.trigS).
RunEffects(h) ==
  LET startT == h.trigT /\ TranslateGuard(h.pa, h.lockT)
      startS == h.trigS /\ SpeakGuard(h.ta, h.lockS)
  IN  /\ phraseArray' = h.pa
      /\ translatedArray' = h.ta
      /\ isTranslatingRef' = (h.lockT \/ startT)
      /\ translateCalls' =
           IF startT
           THEN Append(h.calls, [phrase |-> h.pa[1], lang |-> h.lang, session |-> h.sess])
           ELSE h.calls
      /\ submitted' = IF startT THEN submitted \cup {h.pa[1]} ELSE submitted
      /\ currentTranslation' = IF startS THEN h.ta[1] ELSE h.cur
      /\ isSpeakingRef' = (h.lockS \/ startS)
      /\ utterances' =
           IF startS
           THEN Append(h.utts, [text |-> h.ta[1], session |-> h.sess, timer |-> "pending"])
           ELSE h.utts
      /\ spokenLog' = IF startS THEN Append(h.log, h.ta[1]) ELSE h.log

----------------------------------------------------------------------------
(* Authentication of the remote view: useElevenLabs and the password form  *)

\* useState('') of password; localStorage.getItem(...) || '' when nothing is stored
NoPassword == ""

\* useState(null) of token; `!token` is how the code tests it
NoToken == ""

PASSWORD_STORAGE_KEY == "elevenlabs_password"

\* What the user may type into the password form.
Passwords == {"secret"}

\* The n-th token the credential provider issues: tokens are single-use, the
\* provider never issues the same one twice.
IssuedToken(n) == "token-" \o ToString(n)

IssuedTokens == {IssuedToken(n) : n \in 1..tokensIssued}

\* How a request to the credential provider ends: a response with a token, a
\* response that is not ok, a response without a token.
TokenOutcomes == {"token", "rejected", "no token"}

\* The effect that fetches a token when a password is set and no token is
\* held: its condition, in a render with password pw, token tk and loading flag ld.
AutoFetchGuard(pw, tk, ld) == pw # NoPassword /\ tk = NoToken /\ ~ld

AuthUnchanged ==
  UNCHANGED <<password, token, isLoading, error, isAuthenticating, authError,
              localStorage, tokenRequests, tokensIssued, connectLog, alerts,
              autoFetches>>

----------------------------------------------------------------------------
(* The Segmenter of the local view: recognition.onresult                   *)

\* A final branch that rejects a transcript that starts with neither the
\* retained partial nor the ledger.
FinalTextToAddOrNothing(transcript) ==
  IF lastInterimRef # EmptyText /\ StartsWith(transcript, lastInterimRef)
  THEN Trim(Substring(transcript, Len(lastInterimRef)))
  ELSE IF allProcessedTextRef # EmptyText /\ StartsWith(transcript, allProcessedTextRef)
       THEN Trim(Substring(transcript, Len(allProcessedTextRef)))
       ELSE EmptyText

\* The part of a final transcript that is new: what follows the retained
\* partial, or else what follows the ledger, or else all of it.
FinalTextToAdd(transcript) ==
  IF lastInterimRef # EmptyText /\ StartsWith(transcript, lastInterimRef)
  THEN Trim(Substring(transcript, Len(lastInterimRef)))
  ELSE IF allProcessedTextRef # EmptyText /\ StartsWith(transcript, allProcessedTextRef)
       THEN Trim(Substring(transcript, Len(allProcessedTextRef)))
       ELSE transcript

\* The words of an interim transcript that make the next phrase.
InterimPhraseWords(words) ==
  Slice(words, processedWordCountRef, processedWordCountRef + WORDS_PER_PHRASE)

\* A guard that lets any unprocessed word of an interim transcript make a phrase.
InterimGuardAnyWord(words) ==
  Len(words) - processedWordCountRef >= 1

\* An interim transcript yields a phrase.
InterimGuard(words) ==
  Len(words) - processedWordCountRef >= WORDS_PER_PHRASE

\* No revision has been delivered since the last start().
NoRevision == [kind |-> "none", words |-> 0, before |-> 0]

SourceLive ==
  IF variant = "local"
  THEN recognitionRef \/ orphans.running > 0 \/ orphans.stopping > 0
  ELSE isConnected

\* The source reports k words of the current utterance.
SourceReports(k) ==
  /\ SourceLive
  /\ k >= 1
  /\ k >= uttLen
  /\ uttBase + k <= MaxCapture

\* The final branch of onresult for the text finalTranscript, and PROCESS 2
OnFinalResult(finalTranscript) ==
  LET transcript == Trim(finalTranscript)
      textToAdd == FinalTextToAdd(transcript)
      words == SplitWords(textToAdd)
      moved == MoveWords(wordArray \o words, phraseArray)
  IN  /\ transcript # EmptyText
      /\ wordArray' = moved.wordArray
      /\ allProcessedTextRef' =
           IF textToAdd # EmptyText
           THEN Trim(allProcessedTextRef \o <<SP>> \o textToAdd)
           ELSE allProcessedTextRef
      /\ lastInterimRef' = EmptyText
      /\ processedWordCountRef' = 0
      /\ emitted' = emitted \o SubSeq(moved.phraseArray, Len(phraseArray) + 1,
                                      Len(moved.phraseArray))
      /\ RunEffects([Handled EXCEPT !.pa = moved.phraseArray,
                                    !.trigT = (moved.phraseArray # phraseArray)])

\* onresult with one final result that does not continue the interim results
\* before it: the source has discarded what it reported of the utterance and
\* delivers k other words.
LocalRewoundFinal(k) ==
  /\ variant = "local"
  /\ SourceLive
  /\ uttLen >= 1
  /\ k >= 1
  /\ uttBase + uttLen + k <= MaxWords
  /\ OnFinalResult(Utterance(uttBase + uttLen, k) \o <<SP>>)
  /\ uttBase' = uttBase + uttLen + k
  /\ uttLen' = 0
  /\ lastRevision' = [kind |-> "rewound", words |-> k, before |-> uttLen]
  /\ AuthUnchanged
  /\ capturedLanguage' = selectedLanguage
  /\ UNCHANGED <<variant, startChanges, completedLog, windowClearedAt, queuedAtStop, selectedLanguage, isListening, isConnected,
                 recentTranslations, recognitionRef, orphans, startAttempts,
                 session, languageChanges, failed>>

\* onresult with one final result
LocalFinal(k) ==
  /\ variant = "local"
  /\ SourceReports(k)
  /\ OnFinalResult(Utterance(uttBase, k) \o <<SP>>)
  /\ uttBase' = uttBase + k
  /\ uttLen' = 0
  /\ lastRevision' = [kind |-> "final", words |-> k, before |-> uttLen]
  /\ AuthUnchanged
  /\ capturedLanguage' = selectedLanguage
  /\ UNCHANGED <<variant, startChanges, completedLog, windowClearedAt, queuedAtStop, selectedLanguage, isListening, isConnected,
                 recentTranslations, recognitionRef, orphans, startAttempts,
                 session, languageChanges, failed>>

\* onresult with interim results only
LocalInterim(k) ==
  /\ variant = "local"
  /\ SourceReports(k)
  /\ LET currentInterim == Trim(Utterance(uttBase, k))
         words == SplitWords(currentInterim)
         emit == InterimGuard(words)
         phrase == Join(InterimPhraseWords(words))
     IN  /\ currentInterim # EmptyText
         /\ allProcessedTextRef' =
              IF emit THEN Trim(allProcessedTextRef \o <<SP>> \o phrase)
              ELSE allProcessedTextRef
         /\ processedWordCountRef' =
              IF emit THEN processedWordCountRef + WORDS_PER_PHRASE
              ELSE processedWordCountRef
         /\ lastInterimRef' = IF emit THEN currentInterim ELSE lastInterimRef
         /\ emitted' = IF emit THEN Append(emitted, phrase) ELSE emitted
         /\ RunEffects([Handled EXCEPT
                          !.pa = IF emit THEN Append(phraseArray, phrase) ELSE phraseArray,
                          !.trigT = emit])
  /\ uttLen' = k
  /\ lastRevision' = [kind |-> "partial", words |-> k, before |-> uttLen]
  /\ AuthUnchanged
  /\ capturedLanguage' = selectedLanguage
  /\ UNCHANGED <<variant, startChanges, completedLog, windowClearedAt, queuedAtStop, selectedLanguage, isListening, isConnected, wordArray,
                 recentTranslations, recognitionRef, orphans, startAttempts,
                 uttBase, session, languageChanges, failed>>

----------------------------------------------------------------------------
(* The Translation Stage and the Playback Stage (both views)               *)

\* A catch block that leaves the failed phrase at the head of the queue.
TranslateSettledKeepsHead(i, outcome) ==
  LET call == translateCalls[i]
      ok == outcome \notin FailureOutcomes
      translation ==
        ExtractTranslation(variant, ResponseSegments(call.phrase, SegmentCount(outcome)))
  IN  [Handled EXCEPT
         !.pa = IF ok THEN Slice1(phraseArray) ELSE phraseArray,
         !.ta = IF ok THEN Append(translatedArray, translation) ELSE translatedArray,
         !.lockT = FALSE,
         !.calls = RemoveAt(translateCalls, i),
         !.trigT = TRUE,
         !.trigS = ok]

\* What translateNextPhrase leaves when call i ends with `outcome`: the try
\* block on success, the catch block on failure, then the finally block.
TranslateSettled(i, outcome) ==
  LET call == translateCalls[i]
      ok == outcome \notin FailureOutcomes
      translation ==
        ExtractTranslation(variant, ResponseSegments(call.phrase, SegmentCount(outcome)))
  IN  [Handled EXCEPT
         !.pa = Slice1(phraseArray),
         !.ta = IF ok THEN Append(translatedArray, translation) ELSE translatedArray,
         !.lockT = FALSE,
         !.calls = RemoveAt(translateCalls, i),
         !.trigT = TRUE,
         !.trigS = ok]

RecentAfterUnbounded(translation) == Append(recentTranslations, translation)

\* setRecentTranslations(prev => [...prev, translation].slice(-3))
RecentAfter(translation) ==
  LastN(Append(recentTranslations, translation), RECENT_WINDOW)

\* translateNextPhrase after its await: call i ends with `outcome`.
TranslateDone(i, outcome) ==
  /\ i \in 1..Len(translateCalls)
  /\ LET call == translateCalls[i]
         ok == outcome \notin FailureOutcomes
     IN  /\ recentTranslations' =
              IF ok
              THEN RecentAfter(ExtractTranslation(variant,
                     ResponseSegments(call.phrase, SegmentCount(outcome))))
              ELSE recentTranslations
         /\ completedLog' =
              IF ok
              THEN Append(completedLog, ExtractTranslation(variant,
                     ResponseSegments(call.phrase, SegmentCount(outcome))))
              ELSE completedLog
         /\ UNCHANGED windowClearedAt
         /\ failed' = IF ok \/ call.session # session THEN failed
                      ELSE failed \cup {call.phrase}
  /\ RunEffects(TranslateSettled(i, outcome))
  /\ AuthUnchanged
  /\ UNCHANGED <<variant, startChanges, capturedLanguage, lastRevision, queuedAtStop, selectedLanguage, isListening, isConnected, wordArray,
                 lastInterimRef, processedWordCountRef, allProcessedTextRef,
                 recognitionRef, orphans, startAttempts, uttBase, uttLen, session,
                 languageChanges, emitted>>

\* What utterance.onend and utterance.onerror leave for utterance i.
SignalSettled(i) ==
  [Handled EXCEPT !.ta = Slice1(translatedArray),
                  !.lockS = FALSE,
                  !.utts = RemoveAt(utterances, i),
                  !.trigS = TRUE]

\* utterance.onend of utterance i
UtteranceEnd(i) ==
  /\ i \in 1..Len(utterances)
  /\ RunEffects(SignalSettled(i))
  /\ AuthUnchanged
  /\ UNCHANGED <<variant, startChanges, capturedLanguage, completedLog, windowClearedAt, lastRevision, queuedAtStop, selectedLanguage, isListening, isConnected, wordArray,
                 recentTranslations, lastInterimRef, processedWordCountRef,
                 allProcessedTextRef, recognitionRef, orphans, startAttempts,
                 uttBase, uttLen, session, languageChanges, emitted, failed>>

\* utterance.onerror of utterance i
UtteranceError(i) ==
  /\ i \in 1..Len(utterances)
  /\ RunEffects(SignalSettled(i))
  /\ AuthUnchanged
  /\ UNCHANGED <<variant, startChanges, capturedLanguage, completedLog, windowClearedAt, lastRevision, queuedAtStop, selectedLanguage, isListening, isConnected, wordArray,
                 recentTranslations, lastInterimRef, processedWordCountRef,
                 allProcessedTextRef, recognitionRef, orphans, startAttempts,
                 uttBase, uttLen, session, languageChanges, emitted, failed>>

\* A safety timer that removes the head and keeps the speaking lock.
TimeoutKeepsLock(i) ==
  [Handled EXCEPT !.ta = Slice1(translatedArray),
                  !.utts = [utterances EXCEPT ![i].timer = "fired"],
                  !.trigS = TRUE]

\* What the safety timer's callback leaves for utterance i; the utterance
\* stays with the provider, which may still signal.
TimeoutSettled(i) ==
  [Handled EXCEPT !.ta = Slice1(translatedArray),
                  !.lockS = FALSE,
                  !.utts = [utterances EXCEPT ![i].timer = "fired"],
                  !.trigS = TRUE]

\* The safety timer of utterance i fires: neither signal has come so far.
SafetyTimeout(i) ==
  /\ i \in 1..Len(utterances)
  /\ utterances[i].timer = "pending"
  /\ RunEffects(TimeoutSettled(i))
  /\ AuthUnchanged
  /\ UNCHANGED <<variant, startChanges, capturedLanguage, completedLog, windowClearedAt, lastRevision, queuedAtStop, selectedLanguage, isListening, isConnected, wordArray,
                 recentTranslations, lastInterimRef, processedWordCountRef,
                 allProcessedTextRef, recognitionRef, orphans, startAttempts,
                 uttBase, uttLen, session, languageChanges, emitted, failed>>

\* The session is Active.
Active == IF variant = "local" THEN isListening ELSE isConnected

\* The language <select>, enabled while the view is not capturing.
SelectLanguage(lang) ==
  /\ lang \in LANGUAGES \ {selectedLanguage}
  /\ variant = "remote" => password # NoPassword
  /\ ~Active
  /\ languageChanges < MaxLanguageChanges
  /\ languageChanges' = languageChanges + 1
  /\ selectedLanguage' = lang
  /\ RunEffects([Handled EXCEPT !.lang = lang, !.trigT = TRUE])
  /\ AuthUnchanged
  /\ UNCHANGED <<variant, startChanges, capturedLanguage, completedLog, windowClearedAt, lastRevision, queuedAtStop, isListening, isConnected, wordArray, recentTranslations,
                 lastInterimRef, processedWordCountRef, allProcessedTextRef,
                 recognitionRef, orphans, startAttempts, uttBase, uttLen, session,
                 emitted, failed>>

----------------------------------------------------------------------------
(* The Session Controller                                                  *)

\* The pipeline state a start() works on: both queues, the current display and
\* both locks.
Pipeline ==
  [phraseArray |-> phraseArray, translatedArray |-> translatedArray,
   currentTranslation |-> currentTranslation,
   isTranslatingRef |-> isTranslatingRef, isSpeakingRef |-> isSpeakingRef]

\* A start branch that clears the queues and the display and keeps the locks.
StartResetKeepsLocks ==
  [Handled EXCEPT !.pa = <<>>, !.ta = <<>>, !.cur = EmptyText, !.log = <<>>,
                  !.sess = session + 1, !.trigT = TRUE, !.trigS = TRUE]

\* What the start branch of handleStartStop leaves of the pipeline: empty
\* queues and display, free locks.
StartReset ==
  [Handled EXCEPT !.pa = <<>>, !.ta = <<>>, !.cur = EmptyText,
                  !.lockT = FALSE, !.lockS = FALSE, !.log = <<>>,
                  !.sess = session + 1, !.trigT = TRUE, !.trigS = TRUE]

\* A stop branch that also empties the Phrase Queue.
StopClearsPhrases ==
  IF variant = "remote"
  THEN [Handled EXCEPT !.pa = <<>>, !.lockT = FALSE, !.lockS = FALSE]
  ELSE [Handled EXCEPT !.pa = <<>>]

\* What the stop branch of handleStartStop leaves of the pipeline: the local
\* view touches nothing, the remote view resets both locks.
StopSettled ==
  IF variant = "remote"
  THEN [Handled EXCEPT !.lockT = FALSE, !.lockS = FALSE]
  ELSE Handled

\* handleStartStop, start branch, and PROCESS 1 creating and starting a recognizer
LocalStart ==
  /\ variant = "local"
  /\ ~isListening
  /\ session < MaxStarts
  /\ session' = session + 1
  /\ queuedAtStop' = [phrases |-> 0, translations |-> 0]
  /\ wordArray' = <<>>
  /\ recentTranslations' = <<>>
  /\ windowClearedAt' = Len(completedLog)
  /\ UNCHANGED completedLog
  /\ lastInterimRef' = EmptyText
  /\ processedWordCountRef' = 0
  /\ allProcessedTextRef' = EmptyText
  /\ isListening' = TRUE
  /\ recognitionRef' = TRUE
  /\ RunEffects(StartReset)
  /\ emitted' = <<>>
  /\ failed' = {}
  /\ uttBase' = uttBase + uttLen
  /\ uttLen' = 0
  /\ lastRevision' = NoRevision
  /\ AuthUnchanged
  /\ UNCHANGED <<variant, startChanges, capturedLanguage, selectedLanguage, isConnected, orphans, startAttempts,
                 languageChanges>>

\* handleStartStop, stop branch, and the cleanup of PROCESS 1: the recognizer
\* is told to stop and the reference to it is dropped.
LocalStop ==
  /\ variant = "local"
  /\ isListening
  /\ isListening' = FALSE
  /\ recognitionRef' = FALSE
  /\ orphans' = IF recognitionRef
                THEN [orphans EXCEPT !.stopping = @ + 1] ELSE orphans
  /\ RunEffects(StopSettled)
  /\ queuedAtStop' = [phrases |-> Len(phraseArray), translations |-> Len(translatedArray)]
  /\ AuthUnchanged
  /\ UNCHANGED <<variant, startChanges, capturedLanguage, completedLog, windowClearedAt, lastRevision, selectedLanguage, isConnected, wordArray,
                 recentTranslations, lastInterimRef, processedWordCountRef,
                 allProcessedTextRef, startAttempts, uttBase, uttLen, session,
                 languageChanges, emitted, failed>>

\* recognition.onend of a recognizer that was told to stop.  The handler tests
\* the isListening of the render that created the recognizer, which is true,
\* and starts the recognizer again.
RecognizerEnd ==
  /\ variant = "local"
  /\ orphans.stopping > 0
  /\ orphans' = [stopping |-> orphans.stopping - 1, running |-> orphans.running + 1]
  /\ AuthUnchanged
  /\ UNCHANGED <<variant, startChanges, capturedLanguage, completedLog, windowClearedAt, lastRevision, queuedAtStop, selectedLanguage, isListening, isConnected, wordArray,
                 phraseArray, translatedArray, currentTranslation,
                 recentTranslations, isTranslatingRef, isSpeakingRef,
                 lastInterimRef, processedWordCountRef, allProcessedTextRef,
                 recognitionRef, startAttempts, translateCalls, utterances,
                 uttBase, uttLen, session, languageChanges, emitted, failed,
                 submitted, spokenLog>>

----------------------------------------------------------------------------
(* The Segmenter of the remote view: useElevenLabsScribe                   *)

\* The words of a committed transcript not yet made phrases.
RemainingWords(words) == Slice(words, processedWordCountRef, Len(words))

\* onPartialTranscript
RemotePartial(k) ==
  /\ variant = "remote"
  /\ SourceReports(k)
  /\ LET currentPartial == Trim(Utterance(uttBase, k))
         words == SplitWords(currentPartial)
         emit == InterimGuard(words)
         phrase == Join(InterimPhraseWords(words))
     IN  /\ currentPartial # EmptyText
         /\ processedWordCountRef' =
              IF emit THEN processedWordCountRef + WORDS_PER_PHRASE
              ELSE processedWordCountRef
         /\ emitted' = IF emit THEN Append(emitted, phrase) ELSE emitted
         /\ RunEffects([Handled EXCEPT
                          !.pa = IF emit THEN Append(phraseArray, phrase) ELSE phraseArray,
                          !.trigT = emit])
  /\ uttLen' = k
  /\ lastRevision' = [kind |-> "partial", words |-> k, before |-> uttLen]
  /\ AuthUnchanged
  /\ capturedLanguage' = selectedLanguage
  /\ UNCHANGED <<variant, startChanges, completedLog, windowClearedAt, queuedAtStop, selectedLanguage, isListening, isConnected, wordArray,
                 recentTranslations, lastInterimRef, allProcessedTextRef,
                 recognitionRef, orphans, startAttempts, uttBase, session, languageChanges, failed>>

\* onCommittedTranscript
RemoteCommitted(k) ==
  /\ variant = "remote"
  /\ SourceReports(k)
  /\ LET text == Trim(Utterance(uttBase, k))
         words == SplitWords(text)
         emit == Len(words) > processedWordCountRef
         remainingPhrase == Join(RemainingWords(words))
     IN  /\ text # EmptyText
         /\ processedWordCountRef' = 0
         /\ emitted' = IF emit /\ remainingPhrase # EmptyText
                       THEN Append(emitted, remainingPhrase) ELSE emitted
         /\ RunEffects([Handled EXCEPT
                          !.pa = IF emit /\ remainingPhrase # EmptyText
                                 THEN Append(phraseArray, remainingPhrase)
                                 ELSE phraseArray,
                          !.trigT = emit /\ remainingPhrase # EmptyText])
  /\ uttBase' = uttBase + k
  /\ uttLen' = 0
  /\ lastRevision' = [kind |-> "final", words |-> k, before |-> uttLen]
  /\ AuthUnchanged
  /\ capturedLanguage' = selectedLanguage
  /\ UNCHANGED <<variant, startChanges, completedLog, windowClearedAt, queuedAtStop, selectedLanguage, isListening, isConnected, wordArray,
                 recentTranslations, lastInterimRef, allProcessedTextRef,
                 recognitionRef, orphans, startAttempts, session, languageChanges, failed>>

----------------------------------------------------------------------------
(* The Session Controller of the remote view: token and connection         *)

\* handleStartStop, start branch, up to `await getToken(password)`.  The
\* button is rendered with the main UI (a password is set) and is enabled
\* while the hook holds a token.
RemoteStart ==
  /\ variant = "remote"
  /\ password # NoPassword
  /\ token # NoToken
  /\ ~isConnected
  /\ session < MaxStarts
  /\ IF password = NoPassword
     THEN /\ alerts' = Append(alerts, "password")
          /\ RunEffects(Handled)
          /\ UNCHANGED <<session, queuedAtStop, startAttempts, emitted, failed,
                         uttBase, uttLen, lastRevision, isLoading, error, startChanges,
                         autoFetches>>
     ELSE /\ session' = session + 1
          /\ queuedAtStop' = [phrases |-> 0, translations |-> 0]
          /\ RunEffects(StartReset)
          /\ startChanges' = Append(startChanges, [before |-> Pipeline, after |-> Pipeline'])
          /\ startAttempts' = Append(startAttempts, [stage |-> "token", token |-> NoToken])
          /\ isLoading' = TRUE
          /\ error' = FALSE
          /\ autoFetches' = 0
          /\ emitted' = <<>>
          /\ failed' = {}
          /\ uttBase' = uttBase + uttLen
          /\ uttLen' = 0
          /\ lastRevision' = NoRevision
          /\ UNCHANGED alerts
  /\ UNCHANGED <<password, token, isAuthenticating, authError, localStorage,
                 tokenRequests, tokensIssued, connectLog>>
  /\ UNCHANGED <<variant, capturedLanguage, completedLog, windowClearedAt, selectedLanguage, isListening, isConnected, wordArray,
                 recentTranslations, lastInterimRef, processedWordCountRef,
                 allProcessedTextRef, recognitionRef, orphans, languageChanges>>

PipelineUnchanged ==
  UNCHANGED <<wordArray, phraseArray, translatedArray, currentTranslation,
              recentTranslations, isTranslatingRef, isSpeakingRef, lastInterimRef,
              processedWordCountRef, allProcessedTextRef, translateCalls,
              utterances, uttBase, uttLen, session, languageChanges, emitted, failed, submitted,
              spokenLog>>

\* A start branch that connects with the token of the hook's state.
StoredToken(freshToken) == token

\* The token handleStartStop passes to scribe.connect: the one its own
\* getToken call returned.
ConnectToken(freshToken) == freshToken

\* getToken resolves for start attempt i: the hook stores the token and
\* scribe.connect(freshToken) is called
TokenFetched(i) ==
  /\ i \in 1..Len(startAttempts)
  /\ startAttempts[i].stage = "token"
  /\ tokensIssued < MaxTokens
  /\ LET newToken == IssuedToken(tokensIssued + 1)
     IN  /\ tokensIssued' = tokensIssued + 1
         /\ token' = newToken
         /\ isLoading' = FALSE
         /\ startAttempts' = [startAttempts EXCEPT
                                ![i] = [stage |-> "connect", token |-> ConnectToken(newToken)]]
         /\ connectLog' = Append(connectLog, ConnectToken(newToken))
  /\ PipelineUnchanged
  /\ UNCHANGED <<password, error, isAuthenticating, authError, localStorage,
                 tokenRequests, alerts, autoFetches>>
  /\ UNCHANGED <<variant, startChanges, capturedLanguage, completedLog, windowClearedAt, lastRevision, queuedAtStop, selectedLanguage, isListening, isConnected,
                 recognitionRef, orphans>>

\* A catch block that goes on to connect, with the token of the hook's state.
TokenFailureConnects(i) ==
  [attempts |-> [startAttempts EXCEPT ![i] = [stage |-> "connect", token |-> token]],
   connects |-> Append(connectLog, token)]

\* What the catch block of handleStartStop leaves when getToken rejected for
\* start attempt i: the attempt is over and connect was not called.
TokenFailureSettled(i) ==
  [attempts |-> RemoveAt(startAttempts, i),
   connects |-> connectLog]

\* getToken rejects (the response is not ok, or holds no token) or
\* scribe.connect throws for start attempt i: the catch block alerts
StartFailed(i) ==
  /\ i \in 1..Len(startAttempts)
  /\ IF startAttempts[i].stage = "token"
     THEN /\ AutoFetchGuard(password, token, FALSE) => autoFetches < MaxAutoFetches
          /\ autoFetches' =
               IF AutoFetchGuard(password, token, FALSE) THEN autoFetches + 1
               ELSE autoFetches
          /\ startAttempts' = TokenFailureSettled(i).attempts
          /\ connectLog' = TokenFailureSettled(i).connects
          /\ alerts' = Append(alerts, "token")
          /\ error' = TRUE
          /\ isLoading' = AutoFetchGuard(password, token, FALSE)
          /\ tokenRequests' =
               IF AutoFetchGuard(password, token, FALSE)
               THEN Append(tokenRequests, [by |-> "effect", password |-> password])
               ELSE tokenRequests
     ELSE /\ startAttempts' = RemoveAt(startAttempts, i)
          /\ alerts' = Append(alerts, "connect")
          /\ UNCHANGED <<connectLog, error, isLoading, tokenRequests, autoFetches>>
  /\ startChanges' = RemoveAt(startChanges, i)
  /\ PipelineUnchanged
  /\ UNCHANGED <<password, token, isAuthenticating, authError, localStorage, tokensIssued>>
  /\ UNCHANGED <<variant, capturedLanguage, completedLog, windowClearedAt, lastRevision, queuedAtStop, selectedLanguage, isListening, isConnected,
                 recognitionRef, orphans>>

\* scribe.connect resolves for start attempt i
Connected(i) ==
  /\ i \in 1..Len(startAttempts)
  /\ startAttempts[i].stage = "connect"
  /\ startAttempts' = RemoveAt(startAttempts, i)
  /\ isConnected' = TRUE
  /\ startChanges' = RemoveAt(startChanges, i)
  /\ PipelineUnchanged
  /\ AuthUnchanged
  /\ UNCHANGED <<variant, capturedLanguage, completedLog, windowClearedAt, lastRevision, queuedAtStop, selectedLanguage, isListening, recognitionRef, orphans>>

\* handlePasswordSubmit up to `await getToken(passwordInput)`: the form is
\* rendered while no password is set, its button is disabled while authenticating
PasswordSubmit(input) ==
  /\ variant = "remote"
  /\ password = NoPassword
  /\ ~isAuthenticating
  /\ input \in Passwords
  /\ isAuthenticating' = TRUE
  /\ authError' = FALSE
  /\ isLoading' = TRUE
  /\ error' = FALSE
  /\ tokenRequests' = Append(tokenRequests, [by |-> "submit", password |-> input])
  /\ autoFetches' = 0
  /\ PipelineUnchanged
  /\ UNCHANGED <<password, token, localStorage, tokensIssued, connectLog, alerts>>
  /\ UNCHANGED <<variant, startChanges, capturedLanguage, completedLog, windowClearedAt, lastRevision, queuedAtStop, selectedLanguage, isListening, isConnected,
                 recognitionRef, orphans, startAttempts>>

\* getToken settles for request i of the effect or of the password form.  On
\* success the hook stores the token, and the form stores the password in
\* localStorage and in the state; on failure the hook keeps the error and the
\* form shows it.  The effect runs again in the render that follows.
TokenResponse(i, outcome) ==
  /\ i \in 1..Len(tokenRequests)
  /\ outcome \in TokenOutcomes
  /\ outcome = "token" => tokensIssued < MaxTokens
  /\ LET request == tokenRequests[i]
         ok == outcome = "token"
         stored == ok /\ request.by = "submit"
         tk == IF ok THEN IssuedToken(tokensIssued + 1) ELSE token
         pw == IF stored THEN request.password ELSE password
         rest == RemoveAt(tokenRequests, i)
         refetch == AutoFetchGuard(pw, tk, FALSE)
     IN  /\ refetch => autoFetches < MaxAutoFetches
         /\ autoFetches' = IF refetch THEN autoFetches + 1 ELSE autoFetches
         /\ token' = tk
         /\ tokensIssued' = IF ok THEN tokensIssued + 1 ELSE tokensIssued
         /\ error' = IF ok THEN error ELSE TRUE
         /\ password' = pw
         /\ localStorage' =
              IF stored
              THEN [localStorage EXCEPT ![PASSWORD_STORAGE_KEY] = request.password]
              ELSE localStorage
         /\ isAuthenticating' = IF request.by = "submit" THEN FALSE ELSE isAuthenticating
         /\ authError' = IF request.by = "submit" /\ ~ok THEN TRUE ELSE authError
         /\ isLoading' = refetch
         /\ tokenRequests' =
              IF refetch THEN Append(rest, [by |-> "effect", password |-> pw]) ELSE rest
  /\ PipelineUnchanged
  /\ UNCHANGED <<connectLog, alerts>>
  /\ UNCHANGED <<variant, startChanges, capturedLanguage, completedLog, windowClearedAt, lastRevision, queuedAtStop, selectedLanguage, isListening, isConnected,
                 recognitionRef, orphans, startAttempts>>

\* handleLogout: the button is rendered with the main UI
Logout ==
  /\ variant = "remote"
  /\ password # NoPassword
  /\ localStorage' = [localStorage EXCEPT ![PASSWORD_STORAGE_KEY] = NoPassword]
  /\ token' = NoToken
  /\ error' = FALSE
  /\ password' = NoPassword
  /\ authError' = FALSE
  /\ autoFetches' = 0
  /\ PipelineUnchanged
  /\ UNCHANGED <<isLoading, isAuthenticating, tokenRequests, tokensIssued, connectLog, alerts>>
  /\ UNCHANGED <<variant, startChanges, capturedLanguage, completedLog, windowClearedAt, lastRevision, queuedAtStop, selectedLanguage, isListening, isConnected,
                 recognitionRef, orphans, startAttempts>>

\* handleStartStop, stop branch: scribe.disconnect(), the hook's counter reset,
\* both locks reset.  The button is rendered with the main UI and is enabled
\* while the hook holds a token.
RemoteStop ==
  /\ variant = "remote"
  /\ password # NoPassword
  /\ token # NoToken
  /\ isConnected
  /\ isConnected' = FALSE
  /\ processedWordCountRef' = 0
  /\ RunEffects(StopSettled)
  /\ queuedAtStop' = [phrases |-> Len(phraseArray), translations |-> Len(translatedArray)]
  /\ AuthUnchanged
  /\ UNCHANGED <<variant, startChanges, capturedLanguage, completedLog, windowClearedAt, lastRevision, selectedLanguage, isListening, wordArray,
                 recentTranslations, lastInterimRef, allProcessedTextRef,
                 recognitionRef, orphans, startAttempts, uttBase, uttLen,
                 session, languageChanges, emitted, failed>>

----------------------------------------------------------------------------
(* The program *)

Init ==
  /\ variant \in Variants
  /\ selectedLanguage = "lv"
  /\ isListening = FALSE
  /\ isConnected = FALSE
  /\ wordArray = <<>>
  /\ phraseArray = <<>>
  /\ translatedArray = <<>>
  /\ currentTranslation = EmptyText
  /\ recentTranslations = <<>>
  /\ isTranslatingRef = FALSE
  /\ isSpeakingRef = FALSE
  /\ lastInterimRef = EmptyText
  /\ processedWordCountRef = 0
  /\ allProcessedTextRef = EmptyText
  /\ recognitionRef = FALSE
  /\ orphans = [stopping |-> 0, running |-> 0]
  /\ startAttempts = <<>>
  /\ translateCalls = <<>>
  /\ utterances = <<>>
  /\ uttBase = 0
  /\ uttLen = 0
  /\ session = 0
  /\ languageChanges = 0
  /\ emitted = <<>>
  /\ failed = {}
  /\ submitted = {}
  /\ spokenLog = <<>>
  /\ queuedAtStop = [phrases |-> 0, translations |-> 0]
  /\ lastRevision = NoRevision
  /\ \E stored \in {NoPassword} \cup (IF variant = "remote" THEN Passwords ELSE {}) :
       /\ localStorage = [key \in {PASSWORD_STORAGE_KEY} |-> stored]
       /\ password = stored
       /\ isLoading = AutoFetchGuard(stored, NoToken, FALSE)
       /\ tokenRequests =
            IF AutoFetchGuard(stored, NoToken, FALSE)
            THEN <<[by |-> "effect", password |-> stored]>> ELSE <<>>
       /\ autoFetches = IF AutoFetchGuard(stored, NoToken, FALSE) THEN 1 ELSE 0
  /\ token = NoToken
  /\ error = FALSE
  /\ isAuthenticating = FALSE
  /\ authError = FALSE
  /\ tokensIssued = 0
  /\ connectLog = <<>>
  /\ alerts = <<>>
  /\ completedLog = <<>>
  /\ startChanges = <<>>
  /\ capturedLanguage = selectedLanguage
  /\ windowClearedAt = 0

\* The lengths the source reports when the pipeline is under study: each
\* revision brings one more phrase worth of words.
PhraseSteps == {k \in {uttLen + WORDS_PER_PHRASE} : uttBase + k <= MaxWords}

Next ==
  \/ LocalStart
  \/ LocalStop
  \/ RecognizerEnd
  \/ \E k \in PhraseSteps : LocalInterim(k)
  \/ \E k \in PhraseSteps : LocalFinal(k)
  \/ \E input \in Passwords : PasswordSubmit(input)
  \/ \E i \in 1..Len(tokenRequests), outcome \in TokenOutcomes : TokenResponse(i, outcome)
  \/ RemoteStart
  \/ \E i \in 1..MaxStarts : TokenFetched(i)
  \/ \E i \in 1..MaxStarts : StartFailed(i)
  \/ \E i \in 1..MaxStarts : Connected(i)
  \/ RemoteStop
  \/ \E k \in PhraseSteps : RemotePartial(k)
  \/ \E k \in PhraseSteps : RemoteCommitted(k)
  \/ \E lang \in LANGUAGES : SelectLanguage(lang)
  \/ \E i \in 1..Len(translateCalls), outcome \in Outcomes : TranslateDone(i, outcome)
  \/ \E i \in 1..Len(utterances) : UtteranceEnd(i)
  \/ \E i \in 1..Len(utterances) : UtteranceError(i)
  \/ \E i \in 1..Len(utterances) : SafetyTimeout(i)

Spec == Init /\ [][Next]_vars

\* The program's own scheduling: a safety timer that is armed fires unless it
\* is cleared first.
Timers == \E i \in 1..Len(utterances) : SafetyTimeout(i)

TimerSpec == Init /\ [][Next]_vars /\ WF_vars(Timers)

\* The translation provider answers every call, with a result or a failure.
CallsResolve ==
  \E i \in 1..Len(translateCalls), outcome \in Outcomes : TranslateDone(i, outcome)

FairSpec == Init /\ [][Next]_vars /\ WF_vars(Timers) /\ WF_vars(CallsResolve)

\* The Segmenter under study: one capture of MaxSegWords words, the source
\* revising its transcript by any number of words, no call or utterance
\* completing.
SegNext ==
  \/ LocalStart
  \/ \E k \in 1..(MaxSegWords - uttBase) : LocalInterim(k)
  \/ \E k \in 1..(MaxSegWords - uttBase) : LocalFinal(k)
  \/ \E input \in Passwords : PasswordSubmit(input)
  \/ \E i \in 1..Len(tokenRequests), outcome \in TokenOutcomes : TokenResponse(i, outcome)
  \/ RemoteStart
  \/ \E i \in 1..MaxStarts : TokenFetched(i)
  \/ \E i \in 1..MaxStarts : Connected(i)
  \/ \E k \in 1..(MaxSegWords - uttBase) : RemotePartial(k)
  \/ \E k \in 1..(MaxSegWords - uttBase) : RemoteCommitted(k)

SegSpec == Init /\ [][SegNext]_vars

\* The Segmenter over whole sessions: the same capture, and the user stopping
\* and starting again.
SessionSegNext ==
  \/ LocalStart
  \/ LocalStop
  \/ \E k \in 1..(MaxSegWords - uttBase) : LocalInterim(k)
  \/ \E k \in 1..(MaxSegWords - uttBase) : LocalFinal(k)
  \/ \E input \in Passwords : PasswordSubmit(input)
  \/ \E i \in 1..Len(tokenRequests), outcome \in TokenOutcomes : TokenResponse(i, outcome)
  \/ RemoteStart
  \/ \E i \in 1..MaxStarts : TokenFetched(i)
  \/ \E i \in 1..MaxStarts : Connected(i)
  \/ RemoteStop
  \/ \E k \in 1..(MaxSegWords - uttBase) : RemotePartial(k)
  \/ \E k \in 1..(MaxSegWords - uttBase) : RemoteCommitted(k)

SessionSegSpec == Init /\ [][SessionSegNext]_vars

\* The Segmenter of the local view with a source that may rewind: a final
\* result need not continue the interim results before it.
RewindNext ==
  \/ LocalStart
  \/ \E k \in 1..(MaxSegWords - uttBase) : LocalInterim(k)
  \/ \E k \in 1..(MaxSegWords - uttBase) : LocalFinal(k)
  \/ \E k \in 1..(MaxSegWords - uttBase - uttLen) : LocalRewoundFinal(k)

RewindSpec == Init /\ [][RewindNext]_vars

\* The lengths the source reports when it delivers in bursts: a revision may
\* bring several phrases worth of words at once.
BurstSteps ==
  {k \in {uttLen + j * WORDS_PER_PHRASE : j \in 1..MaxBurst} : uttBase + k <= MaxWords}

\* The program with a source that delivers in bursts.
BurstNext ==
  \/ LocalStart
  \/ \E k \in BurstSteps : LocalInterim(k)
  \/ \E k \in BurstSteps : LocalFinal(k)
  \/ \E input \in Passwords : PasswordSubmit(input)
  \/ \E i \in 1..Len(tokenRequests), outcome \in TokenOutcomes : TokenResponse(i, outcome)
  \/ RemoteStart
  \/ \E i \in 1..MaxStarts : TokenFetched(i)
  \/ \E i \in 1..MaxStarts : Connected(i)
  \/ \E k \in BurstSteps : RemotePartial(k)
  \/ \E k \in BurstSteps : RemoteCommitted(k)
  \/ \E i \in 1..Len(translateCalls), outcome \in Outcomes : TranslateDone(i, outcome)
  \/ \E i \in 1..Len(utterances) : UtteranceEnd(i)

BurstSpec == Init /\ [][BurstNext]_vars

\* The Session Controller of the remote view under study: authentication,
\* start and stop, no transcript.
AuthNext ==
  \/ \E input \in Passwords : PasswordSubmit(input)
  \/ \E i \in 1..Len(tokenRequests), outcome \in TokenOutcomes : TokenResponse(i, outcome)
  \/ Logout
  \/ RemoteStart
  \/ \E i \in 1..MaxStarts : TokenFetched(i)
  \/ \E i \in 1..MaxStarts : StartFailed(i)
  \/ \E i \in 1..MaxStarts : Connected(i)
  \/ RemoteStop

AuthSpec == Init /\ [][AuthNext]_vars

----------------------------------------------------------------------------
(* Properties *)

\* The utterances whose safety timer is still armed: the provider has
\* signalled neither end nor error and the timer has not fired.
PendingUtterances == {i \in 1..Len(utterances) : utterances[i].timer = "pending"}

\* C1: single-flight translation: at any instant at most one translation
\* call is outstanding.
SingleFlightTranslation == Len(translateCalls) <= 1

\* C2: single-flight playback: at any instant at most one utterance is in
\* flight with the playback provider.
SingleFlightPlayback == Cardinality(PendingUtterances) <= 1

\* The texts the provider can return for a phrase, as the view reads them.
TranslationsOf(p) ==
  {ExtractTranslation(variant, ResponseSegments(p, n)) : n \in {1, 2}}

\* log is the translation image of ems, in order, with exactly the phrases of
\* `dropped` left out up to the last one spoken.
IsImage(log, ems, dropped) ==
  \E f \in [1..Len(log) -> 1..Len(ems)] :
    /\ \A i \in 1..Len(log) : log[i] \in TranslationsOf(ems[f[i]])
    /\ \A i, j \in 1..Len(log) : i < j => f[i] < f[j]
    /\ \A j \in 1..Len(ems) :
         (\E i \in 1..Len(log) : j < f[i]) =>
           ((\E i \in 1..Len(log) : f[i] = j) <=> ems[j] \notin dropped)

\* C3: ordering: at all times the texts handed to the playback provider are
\* the translations of the phrases the Segmenter emitted, in emission order,
\* with exactly the phrases whose translation failed left out.
SpokenIsImageOfEmitted == IsImage(spokenLog, emitted, failed)

\* The words of a sequence of phrases.
RECURSIVE PhraseWords(_)
PhraseWords(ps) ==
  IF ps = <<>> THEN <<>> ELSE SplitWords(Head(ps)) \o PhraseWords(Tail(ps))

\* The words the Segmenter has consumed: those of the phrases it emitted and
\* those it holds back for the next phrase.
ConsumedWords == PhraseWords(emitted) \o wordArray

Occurrences(ws, w) == Cardinality({i \in 1..Len(ws) : ws[i] = w})

\* A final arrives whose text is the text of the last partial.
FinalRepeatsPartial ==
  /\ uttLen > 0
  /\ uttBase' = uttBase + uttLen
  /\ uttLen' = 0
  /\ session' = session

\* C4: de-duplication: when a final arrives whose text equals the text the
\* partials before it built up, each word of the final is consumed exactly
\* once: none duplicated, none dropped.
FinalConsumedExactlyOnce ==
  [][FinalRepeatsPartial =>
       \A w \in (uttBase + 1)..(uttBase + uttLen) :
         Occurrences(ConsumedWords', <<w>>) = 1]_vars

\* The safety timer of utterance i fires while the item the utterance speaks
\* is the head of the Translated Queue.
TimesOutAtHead(i) ==
  /\ utterances[i].timer = "pending"
  /\ translatedArray # <<>>
  /\ utterances[i].text = Head(translatedArray)
  /\ Len(utterances') >= Len(utterances)
  /\ SubSeq(utterances', 1, Len(utterances)) =
       [utterances EXCEPT ![i].timer = "fired"]

\* The playback of the head of the Translated Queue has just begun.
HeadBeginsPlayback ==
  /\ isSpeakingRef
  /\ utterances # <<>>
  /\ utterances[Len(utterances)] =
       [text |-> Head(translatedArray), session |-> session, timer |-> "pending"]
  /\ currentTranslation = Head(translatedArray)

\* C5: when the provider signals neither end nor error for the utterance of
\* the head item, the safety timeout removes that item from the head of the
\* Translated Queue and releases the speaking lock, the next queued item then
\* begins playback, and the stage does not stay blocked forever.
TimeoutAdvancesPlayback ==
  /\ [][\A i \in 1..Len(utterances) :
          TimesOutAtHead(i) =>
            /\ translatedArray' = Tail(translatedArray)
            /\ IF Tail(translatedArray) = <<>>
               THEN ~isSpeakingRef' /\ Len(utterances') = Len(utterances)
               ELSE HeadBeginsPlayback']_vars
  /\ (isSpeakingRef ~> ~isSpeakingRef)

\* C5 witness: a timer has fired for the head item and the next item is in playback.
TimeoutAdvancedPlayback ==
  /\ \E i \in 1..Len(utterances) :
       utterances[i].timer = "fired" /\ utterances[i].session = session
  /\ translatedArray # <<>>
  /\ HeadBeginsPlayback
  /\ Len(spokenLog) = 2
  /\ Len(utterances) = 2

\* The translation call for the head phrase fails.
HeadCallFails ==
  /\ phraseArray # <<>>
  /\ failed' # failed
  /\ failed' = failed \cup {Head(phraseArray)}

\* C6: when the translation call for the head phrase fails, the head is
\* removed from the Phrase Queue, nothing is appended to the Translated Queue,
\* the lock is released, and the next queued phrase is the next one translated.
FailureSkipsHead ==
  [][HeadCallFails =>
       /\ phraseArray' = Tail(phraseArray)
       /\ translatedArray' = translatedArray
       /\ IF Tail(phraseArray) = <<>>
          THEN ~isTranslatingRef' /\ Len(translateCalls') = Len(translateCalls) - 1
          ELSE /\ isTranslatingRef'
               /\ Len(translateCalls') = Len(translateCalls)
               /\ translateCalls'[Len(translateCalls')].phrase =
                    Head(Tail(phraseArray))]_vars

\* C6 witness: the first phrase failed, nothing was queued for it, and the
\* call for the second phrase is outstanding.
FailureSkippedHead ==
  /\ Len(emitted) = 2
  /\ failed = {emitted[1]}
  /\ phraseArray = <<emitted[2]>>
  /\ translatedArray = <<>>
  /\ spokenLog = <<>>
  /\ isTranslatingRef
  /\ Len(translateCalls) = 1
  /\ translateCalls[1].phrase = emitted[2]

\* C7: when a translation call neither resolves, rejects nor fails, the
\* Translation Stage still recovers: the lock is released without a new start().
HungCallRecovers ==
  \A n \in 0..MaxStarts :
    (isTranslatingRef /\ session = n) ~> (~isTranslatingRef /\ session = n)

\* stop() is called.
StopStep == Active /\ ~Active'

PhraseRemoved ==
  phraseArray # <<>> /\ phraseArray' = Tail(phraseArray) /\ session' = session

TranslationRemoved ==
  translatedArray # <<>> /\ translatedArray' = Tail(translatedArray)
  /\ session' = session

\* The texts a sequence holds.
Range(seq) == {seq[i] : i \in 1..Len(seq)}

\* C9: after stop(), provided every outstanding call resolves or times out,
\* both queues eventually become empty; no phrase leaves the Phrase Queue
\* without a translation attempt of its own and no text leaves the Translated
\* Queue without having been handed to the playback provider.
QueuesDrainAfterStop ==
  /\ [][/\ PhraseRemoved => Head(phraseArray) \in submitted
        /\ TranslationRemoved => Head(translatedArray) \in Range(spokenLog)]_vars
  /\ (~Active ~> (~Active => phraseArray = <<>> /\ translatedArray = <<>>))

\* C9 witness: the session is Idle after a stop() that left a phrase and a
\* translation queued, both have since been spoken and both queues are empty.
DrainedAfterStop ==
  /\ ~Active
  /\ queuedAtStop = [phrases |-> 1, translations |-> 1]
  /\ phraseArray = <<>>
  /\ translatedArray = <<>>
  /\ Len(spokenLog) >= 2
  /\ translateCalls = <<>>
  /\ PendingUtterances = {}

\* start() is called.
StartStep == session' = session + 1

\* The pipeline is clean.
Clean ==
  /\ phraseArray = <<>>
  /\ translatedArray = <<>>
  /\ allProcessedTextRef = EmptyText
  /\ lastInterimRef = EmptyText
  /\ processedWordCountRef = 0
  /\ ~isTranslatingRef
  /\ ~isSpeakingRef
  /\ currentTranslation = EmptyText

\* C10: immediately after start(), also one that follows a stop(), both
\* queues are empty, the Ledger and the retained partial are empty, the word
\* counter is zero, both locks are free and the current display is empty.
StartLeavesClean == [][StartStep => Clean']_vars

\* C10 witness: a second start() found a call and an utterance of the first
\* session outstanding and left the pipeline clean.
RestartedClean ==
  /\ session = 2
  /\ emitted = <<>>
  /\ Clean
  /\ \E i \in 1..Len(translateCalls) : translateCalls[i].session = 1
  /\ \E i \in PendingUtterances : utterances[i].session = 1

\* The step settles translation call i: the call is gone, and the effect that
\* follows may have issued another.
CallSettles(i) ==
  \/ translateCalls' = RemoveAt(translateCalls, i)
  \/ /\ Len(translateCalls') = Len(translateCalls)
     /\ translateCalls' # translateCalls
     /\ SubSeq(translateCalls', 1, Len(translateCalls) - 1) = RemoveAt(translateCalls, i)

\* The step delivers the end or error signal of utterance i: the utterance is
\* gone, and the effect that follows may have spoken another.
UtteranceSignals(i) ==
  \/ utterances' = RemoveAt(utterances, i)
  \/ /\ Len(utterances') = Len(utterances)
     /\ utterances' # utterances
     /\ utterances'[Len(utterances')].timer = "pending"
     /\ SubSeq(utterances', 1, Len(utterances) - 1) = RemoveAt(utterances, i)

\* The step fires the safety timer of utterance i.
UtteranceTimesOut(i) ==
  /\ utterances[i].timer = "pending"
  /\ Len(utterances') >= Len(utterances)
  /\ SubSeq(utterances', 1, Len(utterances)) = [utterances EXCEPT ![i].timer = "fired"]

\* A translation call issued in an earlier session settles.
StaleCallSettles ==
  \E i \in 1..Len(translateCalls) :
    /\ translateCalls[i].session < session
    /\ CallSettles(i)

\* An utterance spoken in an earlier session signals end or error, or its
\* safety timer fires.
StaleUtteranceSettles ==
  \E i \in 1..Len(utterances) :
    /\ utterances[i].session < session
    /\ UtteranceSignals(i) \/ UtteranceTimesOut(i)

\* C11: work in flight before a start() is discarded by it: no safety timer
\* of an earlier session is pending after start(), and a response, signal or
\* timeout of an earlier session neither removes an item from nor appends an
\* item to the queues of the new session, nor releases one of its locks.
StaleWorkDiscarded ==
  [][/\ StartStep =>
          \A i \in 1..Len(utterances') : utterances'[i].timer # "pending"
     /\ (StaleCallSettles \/ StaleUtteranceSettles) =>
          UNCHANGED <<phraseArray, translatedArray, isTranslatingRef,
                      isSpeakingRef>>]_vars

\* The transcript sources that are live or being brought up: running
\* recognizers of the local view, connection attempts and the connection of
\* the remote view.
LiveSources ==
  IF variant = "local"
  THEN (IF recognitionRef THEN 1 ELSE 0) + orphans.running
  ELSE Len(startAttempts) + (IF isConnected THEN 1 ELSE 0)

\* C12: for every interleaving of start and stop requests, also one made
\* while an earlier start() is still fetching its token or connecting, at most
\* one session (one transcript-source connection attempt) is live at a time.
OneSessionLive == LiveSources <= 1

\* C13: in the local view, once stop() has been called the recognition loop
\* is terminated: no recognizer is started again while the session is Idle.
NoRestartAfterStop == isListening \/ orphans.running = 0

\* The number of words of a phrase.
WordCount(phrase) == Len(SplitWords(phrase))

\* C16: every phrase appended to the Phrase Queue has exactly
\* WORDS_PER_PHRASE words, except possibly the last phrase of a session, which
\* may be shorter; no phrase has more.
PhrasesHaveFixedSize ==
  \A i \in 1..Len(emitted) :
    /\ WordCount(emitted[i]) <= WORDS_PER_PHRASE
    /\ i < Len(emitted) => WordCount(emitted[i]) = WORDS_PER_PHRASE

\* C19: the words of the phrases appear in the order they were spoken: the
\* words the Segmenter put into phrases, followed by the words it still holds,
\* are in speech order.
PhrasesInSpeechOrder ==
  \A i, j \in 1..Len(ConsumedWords) :
    i < j => ConsumedWords[i][1] < ConsumedWords[j][1]

\* The words the Segmenter holds: consumed from the source and in no phrase
\* yet.  The local view keeps them in the word array; the remote view keeps
\* only a counter, and they are the words of the current partial past it.
HeldWords ==
  IF variant = "local"
  THEN wordArray
  ELSE [i \in 1..(IF uttLen > processedWordCountRef
                  THEN uttLen - processedWordCountRef ELSE 0) |->
          <<uttBase + processedWordCountRef + i>>]

\* C17: when stop() is called while the Segmenter holds fewer than
\* WORDS_PER_PHRASE words that are in no phrase yet, those words enter the
\* Phrase Queue as one final short phrase and the Segmenter state (word array,
\* retained partial, counter, ledger) is cleared.
StopFlushesHeldWords ==
  [][StopStep /\ HeldWords # <<>> /\ Len(HeldWords) < WORDS_PER_PHRASE
       => /\ emitted' = Append(emitted, Join(HeldWords))
          /\ phraseArray' = Append(phraseArray, Join(HeldWords))
          /\ wordArray' = <<>>
          /\ lastInterimRef' = EmptyText
          /\ processedWordCountRef' = 0
          /\ allProcessedTextRef' = EmptyText]_vars

\* The step is a partial revision of fewer than WORDS_PER_PHRASE words.
ShortPartialStep ==
  /\ lastRevision' # lastRevision
  /\ lastRevision'.kind = "partial"
  /\ lastRevision'.words < WORDS_PER_PHRASE

\* The step is a final revision of exactly WORDS_PER_PHRASE words that follows
\* and extends a partial of fewer words, in a session that has consumed no
\* text before (the ledger is empty).
FullFinalAfterShortPartial ==
  /\ lastRevision.kind = "partial"
  /\ lastRevision.words < WORDS_PER_PHRASE
  /\ lastRevision'.kind = "final"
  /\ lastRevision'.words = WORDS_PER_PHRASE
  /\ StartsWith(Utterance(uttBase, WORDS_PER_PHRASE), Utterance(uttBase, lastRevision.words))
  /\ allProcessedTextRef = EmptyText

PartialStep == lastRevision' # lastRevision /\ lastRevision'.kind = "partial"

\* The words of the partial being handled that are in no phrase yet.
Unprocessed == lastRevision'.words - processedWordCountRef

\* k phrases of WORDS_PER_PHRASE consecutive words each, from the first
\* unprocessed word of the current utterance on.
ConsecutivePhrases(k) ==
  [j \in 1..k |->
     Utterance(uttBase + processedWordCountRef + (j - 1) * WORDS_PER_PHRASE,
               WORDS_PER_PHRASE)]

\* C20: a partial revision with k * WORDS_PER_PHRASE or more unprocessed words
\* (k >= 1) yields k phrases of WORDS_PER_PHRASE consecutive words in that
\* same revision, advances the counter by k * WORDS_PER_PHRASE and leaves
\* fewer than WORDS_PER_PHRASE words unprocessed.
PartialEmitsWhileEnough ==
  [][PartialStep /\ Unprocessed >= WORDS_PER_PHRASE
       => LET k == Unprocessed \div WORDS_PER_PHRASE
          IN  /\ emitted' = emitted \o ConsecutivePhrases(k)
              /\ processedWordCountRef' = processedWordCountRef + k * WORDS_PER_PHRASE
              /\ lastRevision'.words - processedWordCountRef' < WORDS_PER_PHRASE]_vars

\* start() is called in the remote view.
RemoteStartStep == variant = "remote" /\ StartStep

\* scribe.connect is called.
ConnectStep == connectLog' # connectLog

\* C14: in the remote view every start() fetches a new token and connects
\* with exactly that token: start() issues a getToken call, connect is called
\* only with the token that call has just returned, no token is passed to
\* connect twice, and no token is in persistent storage.
FreshTokenPerStart ==
  /\ [](/\ \A i, j \in 1..Len(connectLog) : i # j => connectLog[i] # connectLog[j]
        /\ \A key \in DOMAIN localStorage : localStorage[key] \notin IssuedTokens)
  /\ [][/\ RemoteStartStep =>
             startAttempts' = Append(startAttempts, [stage |-> "token", token |-> NoToken])
        /\ ConnectStep =>
             /\ tokensIssued' = tokensIssued + 1
             /\ connectLog' = Append(connectLog, IssuedToken(tokensIssued'))
             /\ \E i \in 1..Len(startAttempts) :
                  /\ startAttempts[i].stage = "token"
                  /\ startAttempts' =
                       [startAttempts EXCEPT
                          ![i] = [stage |-> "connect", token |-> IssuedToken(tokensIssued')]]]_vars

\* Two sessions have been started, each connected with a token of its own,
\* after the token of the login.
ConnectedTwiceWithFreshTokens ==
  /\ variant = "remote"
  /\ session = 2
  /\ isConnected
  /\ Len(connectLog) = 2
  /\ connectLog[1] # connectLog[2]
  /\ tokensIssued = 3
  /\ localStorage[PASSWORD_STORAGE_KEY] \in Passwords

\* Token acquisition fails during start(): the catch block reports it.
TokenAcquisitionFails ==
  \E kind \in {"password", "token"} : alerts' = Append(alerts, kind)

\* A start attempt leaves the token stage without a token.
AttemptEndsWithoutToken ==
  /\ tokensIssued' = tokensIssued
  /\ \E i \in 1..Len(startAttempts) :
       /\ startAttempts[i].stage = "token"
       /\ startAttempts' # startAttempts
       /\ startAttempts' = RemoveAt(startAttempts, i)

\* C15: if token acquisition fails during start(), the failure is reported to
\* the user, connect is not called for that attempt (the attempt is over and
\* connect is not called in that step), and the session stays as it was, Idle.
TokenFailureStopsStart ==
  [][/\ AttemptEndsWithoutToken => alerts' = Append(alerts, "token")
     /\ TokenAcquisitionFails =>
          /\ connectLog' = connectLog
          /\ isConnected' = isConnected
          /\ Len(startAttempts') < Len(startAttempts) \/ alerts' = Append(alerts, "password")
          /\ \A i \in 1..Len(startAttempts') : startAttempts'[i] \in Range(startAttempts)
          /\ Len(startAttempts') = 0 /\ connectLog = <<>> => ~isConnected']_vars

\* A start() whose token request was rejected: the user was alerted, connect
\* was never called and the session is Idle.
StartFailedAtToken ==
  /\ variant = "remote"
  /\ session = 1
  /\ alerts = <<"token">>
  /\ connectLog = <<>>
  /\ startAttempts = <<>>
  /\ ~isConnected
  /\ error

\* The step is a final revision: the source closes the current utterance.
FinalStep == lastRevision'.kind = "final" /\ uttBase' # uttBase /\ ~StartStep

\* C21: after a final revision mid-session the words that do not fill a
\* phrase are held: every word of the final is in a phrase or held (none is
\* lost), no phrase the final emits is shorter than WORDS_PER_PHRASE, and a
\* held word stays held until it enters a phrase.
FinalHoldsRemainder ==
  [][/\ FinalStep =>
          /\ \A i \in (Len(emitted) + 1)..Len(emitted') :
               WordCount(emitted'[i]) = WORDS_PER_PHRASE
          /\ \A w \in (uttBase + 1)..uttBase' :
               Occurrences(ConsumedWords', <<w>>) >= 1
     /\ ~StartStep =>
          \A i \in 1..Len(wordArray) :
            Occurrences(ConsumedWords', wordArray[i]) >= 1]_vars

\* The provider signals end or error for utterance i after the safety timer
\* of that utterance has fired.
LateSignal(i) == utterances[i].timer = "fired" /\ UtteranceSignals(i)

\* The first of the completion signal, the error signal and the safety timer
\* of utterance i takes effect.
FirstSettles(i) ==
  utterances[i].timer = "pending" /\ (UtteranceSignals(i) \/ UtteranceTimesOut(i))

\* C22: for each utterance (here: of the running session) the first of
\* {completion signal, error signal, safety timeout} to fire removes that
\* utterance's own item, the head, from the Translated Queue while the speaking
\* lock is held, and a provider signal that arrives after the timeout has fired
\* changes neither the queue nor the lock.
OneCompletionPerUtterance ==
  [][\A i \in 1..Len(utterances) :
       utterances[i].session = session =>
         /\ FirstSettles(i) =>
              /\ isSpeakingRef
              /\ translatedArray # <<>>
              /\ Head(translatedArray) = utterances[i].text
              /\ translatedArray' = Tail(translatedArray)
         /\ LateSignal(i) => UNCHANGED <<translatedArray, isSpeakingRef>>]_vars

\* C23: in every reachable state the translation lock is held exactly when a
\* translation call is outstanding, and the speaking lock exactly when an
\* utterance awaits its completion or its timeout.
LocksMatchCalls ==
  /\ isTranslatingRef <=> translateCalls # <<>>
  /\ isSpeakingRef <=> PendingUtterances # {}

\* The step hands a phrase to the translation provider.
CallIssued ==
  \/ Len(translateCalls') = Len(translateCalls) + 1
  \/ Len(translateCalls') = Len(translateCalls) /\ translateCalls' # translateCalls

\* C24: each phrase is submitted to the translation provider at most once: a
\* phrase handed to the provider has not been handed to it before, whether
\* its first call is outstanding, has completed or has failed.
SubmittedAtMostOnce ==
  [][CallIssued => translateCalls'[Len(translateCalls')].phrase \notin submitted]_vars

\* C25: a stage only peeks its queue head when it starts work: while a
\* translation call (here: of the running session) is outstanding its phrase
\* is the head of the Phrase Queue, and while an utterance awaits its
\* completion, error or timeout its item is the head of the Translated Queue
\* and is the current-display value.
WorkedItemStaysHead ==
  /\ \A i \in 1..Len(translateCalls) :
       translateCalls[i].session = session =>
         phraseArray # <<>> /\ Head(phraseArray) = translateCalls[i].phrase
  /\ \A i \in PendingUtterances :
       utterances[i].session = session =>
         /\ translatedArray # <<>>
         /\ Head(translatedArray) = utterances[i].text
         /\ currentTranslation = utterances[i].text

\* The transcript of the final result the step delivers.
FinalTranscript ==
  IF lastRevision'.kind = "rewound"
  THEN Utterance(uttBase + uttLen, lastRevision'.words)
  ELSE Utterance(uttBase, lastRevision'.words)

\* The step is a final result of the local view whose text starts with
\* neither the retained partial nor the ledger.
UnmatchedFinalStep ==
  /\ variant = "local"
  /\ uttBase' # uttBase
  /\ ~StartStep
  /\ lastRevision'.kind \in {"final", "rewound"}
  /\ ~(lastInterimRef # EmptyText /\ StartsWith(FinalTranscript, lastInterimRef))
  /\ ~(allProcessedTextRef # EmptyText /\ StartsWith(FinalTranscript, allProcessedTextRef))

\* C26: a final revision whose text starts with neither the retained partial
\* nor the ledger is treated entirely as new text: all of its words, in order,
\* join the words consumed so far (in phrases or held), its text is added to
\* the ledger, and the Segmenter is left as after any final, ready for the
\* next revision.
UnmatchedFinalIsNewText ==
  [][UnmatchedFinalStep =>
       /\ ConsumedWords' = ConsumedWords \o SplitWords(FinalTranscript)
       /\ Len(wordArray') < WORDS_PER_PHRASE
       /\ allProcessedTextRef' = Trim(allProcessedTextRef \o <<SP>> \o FinalTranscript)
       /\ lastInterimRef' = EmptyText
       /\ processedWordCountRef' = 0]_vars

\* A final that does not continue its partial has arrived after that partial
\* had cut a phrase and the ledger held text, and its words were consumed.
UnmatchedFinalConsumed ==
  /\ variant = "local"
  /\ lastRevision.kind = "rewound"
  /\ lastRevision.before >= WORDS_PER_PHRASE
  /\ Len(emitted) >= 1
  /\ Len(ConsumedWords) = WORDS_PER_PHRASE + lastRevision.words
  /\ ConsumedWords[Len(ConsumedWords)] = <<uttBase>>

\* ---------------------------------------------------------------------------
\* The window of recent translations under study: up to MaxCapture words, one
\* phrase at a time, so that more translations complete than the window holds.
\* An utterance has at most MaxWords words; a final result repeats the words of
\* the interim result before it.
WindowSteps ==
  {k \in {uttLen + WORDS_PER_PHRASE} : k <= MaxWords /\ uttBase + k <= MaxCapture}

WindowFinals == {k \in {uttLen} : k >= 1}

WindowNext ==
  \/ LocalStart
  \/ LocalStop
  \/ \E k \in WindowSteps : LocalInterim(k)
  \/ \E k \in WindowFinals : LocalFinal(k)
  \/ \E input \in Passwords : PasswordSubmit(input)
  \/ \E i \in 1..Len(tokenRequests), outcome \in TokenOutcomes : TokenResponse(i, outcome)
  \/ RemoteStart
  \/ \E i \in 1..MaxStarts : TokenFetched(i)
  \/ \E i \in 1..MaxStarts : Connected(i)
  \/ RemoteStop
  \/ \E k \in WindowSteps : RemotePartial(k)
  \/ \E k \in WindowFinals : RemoteCommitted(k)
  \/ \E i \in 1..Len(translateCalls), outcome \in Outcomes : TranslateDone(i, outcome)

WindowSpec == Init /\ [][WindowNext]_vars

\* The translations that completed successfully since the window was last cleared.
CompletedSinceCleared == SubSeq(completedLog, windowClearedAt + 1, Len(completedLog))

\* A translation call settles and hands no translation on: it failed.
CallFails ==
  /\ \E i \in 1..Len(translateCalls) : CallSettles(i)
  /\ translatedArray' = translatedArray

\* C27 (as stated): the window of recent translations never holds more than
\* RECENT_WINDOW entries and always equals the most recent (up to RECENT_WINDOW)
\* successfully completed translations, in completion order.
WindowIsLastCompleted ==
  /\ Len(recentTranslations) <= RECENT_WINDOW
  /\ recentTranslations = LastN(completedLog, RECENT_WINDOW)

\* C27 (amended): the window never holds more than RECENT_WINDOW entries and
\* always equals the most recent (up to RECENT_WINDOW) translations that
\* completed successfully since the window was last cleared, in completion
\* order; a translation that fails leaves the window as it was.
WindowIsLastCompletedSinceCleared ==
  /\ [](/\ Len(recentTranslations) <= RECENT_WINDOW
        /\ recentTranslations = LastN(CompletedSinceCleared, RECENT_WINDOW))
  /\ [][CallFails => recentTranslations' = recentTranslations]_vars

\* More translations completed than the window holds, one of them after a
\* failure, and the window shows the last RECENT_WINDOW of them.
WindowRolled ==
  /\ Len(CompletedSinceCleared) > RECENT_WINDOW
  /\ failed # {}
  /\ Len(recentTranslations) = RECENT_WINDOW
  /\ recentTranslations[1] = CompletedSinceCleared[Len(CompletedSinceCleared) - RECENT_WINDOW + 1]

\* The translations that left the Translated Queue: it is first-in first-out,
\* so they are the first of those that were appended to it.
RemovedTranslations ==
  SubSeq(completedLog, 1, Len(completedLog) - Len(translatedArray))

\* C28: within a session and while it drains after stop(), every translated
\* text appended to the Translated Queue is handed to the playback provider
\* exactly once: no text is spoken more often than it was appended, and no
\* text left the queue without having been handed to the provider.
EachTranslationSpokenOnce ==
  session <= 1 =>
    /\ \A t \in Range(spokenLog) :
         Occurrences(spokenLog, t) <= Occurrences(completedLog, t)
    /\ \A j \in 1..Len(RemovedTranslations) :
         RemovedTranslations[j] \in Range(spokenLog)

\* The language selector changes the language.
LanguageChanged == selectedLanguage' # selectedLanguage

\* The call the step issues.
IssuedCall == translateCalls'[Len(translateCalls')]

\* C29: every phrase is sent to the translation provider with the source
\* language in which its session captured it (the language selected when the
\* source last delivered words), and a change of the language while the
\* pipeline drains starts no translation call.
PhrasesKeepSessionLanguage ==
  [][/\ CallIssued => IssuedCall.lang = capturedLanguage'
     /\ LanguageChanged => ~CallIssued]_vars

\* getToken rejects for start attempt i: the catch block reports it and the
\* attempt is over.
StartFailsAtToken(i) ==
  /\ startAttempts[i].stage = "token"
  /\ alerts' = Append(alerts, "token")
  /\ startChanges' = RemoveAt(startChanges, i)

\* C30: a start() attempt that fails at token acquisition leaves the pipeline
\* as it was before the attempt: neither the press of start nor the failure
\* changes the Phrase Queue, the Translated Queue, the current display or a lock.
FailedStartKeepsPipeline ==
  [][\A i \in 1..Len(startAttempts) :
       StartFailsAtToken(i) =>
         /\ startChanges[i].after = startChanges[i].before
         /\ Pipeline' = Pipeline]_vars

\* C31: the automatic token fetch terminates: after it has failed the effect
\* does not issue it again until the user acts on the credentials (login,
\* logout or start), so between two such actions the credential provider
\* receives at most one automatic request.
AutoFetchNotRepeated == autoFetches <= 1

\* ---------------------------------------------------------------------------
\* Logout under study: the remote view with login, logout, start, stop, the
\* transcript source and the translation stage.
LogoutNext ==
  \/ \E input \in Passwords : PasswordSubmit(input)
  \/ \E i \in 1..Len(tokenRequests), outcome \in TokenOutcomes : TokenResponse(i, outcome)
  \/ Logout
  \/ RemoteStart
  \/ \E i \in 1..MaxStarts : TokenFetched(i)
  \/ \E i \in 1..MaxStarts : StartFailed(i)
  \/ \E i \in 1..MaxStarts : Connected(i)
  \/ RemoteStop
  \/ \E k \in PhraseSteps : RemotePartial(k)
  \/ \E k \in PhraseSteps : RemoteCommitted(k)
  \/ \E i \in 1..Len(translateCalls), outcome \in Outcomes : TranslateDone(i, outcome)

LogoutSpec == Init /\ [][LogoutNext]_vars

\* handleLogout runs.
LogoutStep == password # NoPassword /\ password' = NoPassword

\* A phrase is appended to the Phrase Queue.
PhraseAppended == Len(emitted') > Len(emitted)

\* C32: logging out while a session is Active ends the session: after the
\* logout the transcript source is disconnected and the session is Idle, and
\* while nobody is logged in no phrase is appended to the Phrase Queue.
LogoutEndsSession ==
  [][/\ LogoutStep => ~isConnected'
     /\ variant = "remote" /\ password = NoPassword => ~PhraseAppended]_vars

============================================================================
